---- MODULE Spec2Model ----
(***************************************************************************)
(* A model of src/index.ts: the Observer class (lines 52-102), the         *)
(* Observable class (lines 104-136) and the producers that drive them.     *)
(*                                                                         *)
(* The consumer's callbacks and the teardown closure are external code:    *)
(* the model records what they observe (the values onNext received, how    *)
(* often onError, onComplete and the teardown were invoked) and lets a     *)
(* callback either return or throw.  A throw leaves the method at the      *)
(* throwing statement, as JavaScript does.  A hand-written producer may    *)
(* return a teardown that calls observer.unsubscribe() itself; each such   *)
(* nested call is a step, until the call stack (MaxDepth) is exhausted.    *)
(***************************************************************************)
EXTENDS Integers, Sequences, FiniteSets, TLC

\* ------------------------------------------------------------- bounds
MaxLen   == 2   \* longest array given to Observable.from; longest onNext log
MaxCount == 2   \* most invocations recorded per terminal handler / teardown
MaxDepth == 2   \* nested unsubscribe() frames the call stack holds

\* Two subscribe calls are followed on an Observable.from(...); one on an
\* Observable with a hand-written producer (SubsOf below).  Payloads are
\* opaque to the core: two distinct ones tell order and repetition apart.
Subs   == {1, 2}
Values == {"a", "b"}

RECURSIVE SeqsUpTo(_)
SeqsUpTo(n) ==
  IF n = 0 THEN {<<>>}
  ELSE LET shorter == SeqsUpTo(n - 1)
       IN  shorter \cup {Append(q, v) : q \in {x \in shorter : Len(x) = n - 1}, v \in Values}

\* ------------------------------------------------------------- state
VARIABLES
  observable,    \* the Observable: which producer its _subscribe holds
  producerCalls, \* how often _subscribe has been invoked
  pc,            \* per subscribe call: where Observable.subscribe stands
  observer,      \* per subscribe call: the Observer and what its callbacks saw
  cursor,        \* per subscribe call: index of values.forEach in Observable.from
  depth,         \* unsubscribe() frames on the stack whose teardown is running
  last           \* history: the last Observer method call and the state it found

vars == <<observable, producerCalls, pc, observer, cursor, depth, last>>

\* IHandlers: which of the three callbacks the consumer supplied.
IHandlers == [next : BOOLEAN, error : BOOLEAN, complete : BOOLEAN]

\* new Observer(handlers): _isUnsubscribed = false, _unsubscribe undefined.
\* reentrant tells whether the stored teardown closure calls
\* observer.unsubscribe() itself.
\* nextLog, errorCount, completeCount and teardownRuns are what the
\* consumer's callbacks and the teardown closure have observed so far;
\* handlerSawUnsubscribed: a terminal handler was entered with the flag set;
\* teardownSawLive: the teardown was entered with the flag not set.
NewObserver(h) ==
  [ handlers       |-> h,
    isUnsubscribed |-> FALSE,
    unsubscribeFn  |-> FALSE,
    reentrant      |-> FALSE,
    nextLog        |-> <<>>,
    errorCount     |-> 0,
    completeCount  |-> 0,
    teardownRuns   |-> 0,
    handlerSawUnsubscribed |-> FALSE,
    teardownSawLive        |-> FALSE ]

NoHandlers == [next |-> FALSE, error |-> FALSE, complete |-> FALSE]
NoObserver == NewObserver(NoHandlers)

\* ------------------------------------------------------------- Observer
\* this._unsubscribe(): the teardown closure is entered.
RunTeardown(o) ==
  [o EXCEPT !.teardownRuns = @ + 1,
            !.teardownSawLive = @ \/ ~o.isUnsubscribed]

\* this._handlers.error(error): the handler is entered.
FireError(o) ==
  [o EXCEPT !.errorCount = @ + 1,
            !.handlerSawUnsubscribed = @ \/ o.isUnsubscribed]

\* this._handlers.complete(): the handler is entered.
FireComplete(o) ==
  [o EXCEPT !.completeCount = @ + 1,
            !.handlerSawUnsubscribed = @ \/ o.isUnsubscribed]

\* Mutant: the flag is flipped instead of set.
Observer_unsubscribe_Toggle(o) ==
  LET flagged == [o EXCEPT !.isUnsubscribed = ~@]
  IN  IF flagged.unsubscribeFn
      THEN RunTeardown(flagged)
      ELSE flagged

\* Mutant: the flag is set and the teardown is left for later.
Observer_unsubscribe_FlagOnly(o) ==
  [o EXCEPT !.isUnsubscribed = TRUE]

\* Mutant: the teardown is run before the flag is set.
Observer_unsubscribe_TeardownFirst(o) ==
  LET torn == IF o.unsubscribeFn THEN RunTeardown(o) ELSE o
  IN  [torn EXCEPT !.isUnsubscribed = TRUE]

\* Mutant: unsubscribe tells the consumer, through onComplete.
Observer_unsubscribe_Notifies(o) ==
  LET told    == IF o.handlers.complete /\ ~o.isUnsubscribed THEN FireComplete(o) ELSE o
      flagged == [told EXCEPT !.isUnsubscribed = TRUE]
  IN  IF flagged.unsubscribeFn
      THEN RunTeardown(flagged)
      ELSE flagged

\* Mutant: the teardown is run and the flag is forgotten.
Observer_unsubscribe_NoFlag(o) ==
  IF o.unsubscribeFn THEN RunTeardown(o) ELSE o

\* Observer.unsubscribe: set the flag, then run _unsubscribe when it is set.
Observer_unsubscribe(o) ==
  LET flagged == [o EXCEPT !.isUnsubscribed = TRUE]
  IN  IF flagged.unsubscribeFn
      THEN RunTeardown(flagged)
      ELSE flagged

\* Mutant: next does not look at _isUnsubscribed.
Observer_next_Unguarded(o, value) ==
  IF o.handlers.next
  THEN [o EXCEPT !.nextLog = Append(@, value)]
  ELSE o

\* Mutant: next ends the subscription once its handler has returned.
Observer_next_Terminates(o, value) ==
  IF o.handlers.next /\ ~o.isUnsubscribed
  THEN Observer_unsubscribe([o EXCEPT !.nextLog = Append(@, value)])
  ELSE o

\* Observer.next: the handler runs when present and the Observer is live.
Observer_next(o, value) ==
  IF o.handlers.next /\ ~o.isUnsubscribed
  THEN [o EXCEPT !.nextLog = Append(@, value)]
  ELSE o

\* Mutant: error does not look at _isUnsubscribed.
Observer_error_Unguarded(o, fault) ==
  IF o.handlers.error
  THEN LET fired == FireError(o)
       IN  IF fault THEN fired ELSE Observer_unsubscribe(fired)
  ELSE Observer_unsubscribe(o)

\* Mutant: this.unsubscribe() sits inside the handler's if block.
Observer_error_UnsubscribeInsideIf(o, fault) ==
  IF ~o.isUnsubscribed /\ o.handlers.error
  THEN LET fired == FireError(o)
       IN  IF fault THEN fired ELSE Observer_unsubscribe(fired)
  ELSE o

\* Observer.error: a throwing handler leaves before this.unsubscribe().
Observer_error(o, fault) ==
  IF ~o.isUnsubscribed
  THEN IF o.handlers.error
       THEN LET fired == FireError(o)
            IN  IF fault THEN fired ELSE Observer_unsubscribe(fired)
       ELSE Observer_unsubscribe(o)
  ELSE o

\* Mutant: this.unsubscribe() sits in a finally block.
Observer_complete_Finally(o, fault) ==
  IF ~o.isUnsubscribed
  THEN IF o.handlers.complete
       THEN Observer_unsubscribe(FireComplete(o))
       ELSE Observer_unsubscribe(o)
  ELSE o

\* Observer.complete: a throwing handler leaves before this.unsubscribe().
Observer_complete(o, fault) ==
  IF ~o.isUnsubscribed
  THEN IF o.handlers.complete
       THEN LET fired == FireComplete(o)
            IN  IF fault THEN fired ELSE Observer_unsubscribe(fired)
       ELSE Observer_unsubscribe(o)
  ELSE o

\* Whether the call throws: only an invoked handler can.
NextThrows(o, fault)     == fault /\ o.handlers.next /\ ~o.isUnsubscribed
ErrorThrows(o, fault)    == fault /\ o.handlers.error /\ ~o.isUnsubscribed
CompleteThrows(o, fault) == fault /\ o.handlers.complete /\ ~o.isUnsubscribed

\* ------------------------------------------------------------- helpers
\* JavaScript is single threaded: while one subscribe call is inside its
\* producer nothing else runs.
Running == {t \in Subs : pc[t] \in {"producing", "returning"}}
Idle    == Running = {} /\ depth = 0

\* After a call that took the Observer from pre to post: the frames now
\* inside a teardown that is about to call observer.unsubscribe() again.
Nesting(pre, post, frames) ==
  IF post.reentrant /\ post.teardownRuns > pre.teardownRuns THEN frames + 1 ELSE 0

\* The model stops recording past its bounds.
Bounded(o) ==
  /\ Len(o.nextLog) <= MaxLen
  /\ o.errorCount <= MaxCount
  /\ o.completeCount <= MaxCount
  /\ o.teardownRuns <= MaxCount

\* The history of a step: the Observer method it called (op), on which
\* subscription, the Observer the call found (pre), whether the call threw.
\* A step that calls no Observer method records NoCall.
Call(op, s, threw) ==
  [op |-> op, sub |-> s, pre |-> observer[s], threw |-> threw]

NoCall == [op |-> "none", sub |-> 0, pre |-> NoObserver, threw |-> FALSE]

\* The subscribe calls followed on an Observable of the given kind.
SubsOf(kind) == IF kind = "from" THEN Subs ELSE {1}

\* Mutant: the producer keeps one index for all its invocations.
FromStart_Shared(s) == IF s = 1 THEN 0 ELSE cursor[1]

\* values.forEach starts at the first element, for every invocation.
FromStart(s) == 0

\* Mutant: the elements are visited last to first.
FromValue_Reversed(values, i) == values[Len(values) - i]

\* values.forEach visits the elements in index order (i counts from 0).
FromValue(values, i) == values[i + 1]

\* ------------------------------------------------------------- Init
Init ==
  /\ observable = [kind |-> "none", values |-> <<>>]
  /\ producerCalls = 0
  /\ pc = [s \in Subs |-> "none"]
  /\ observer = [s \in Subs |-> NoObserver]
  /\ cursor = [s \in Subs |-> 0]
  /\ depth = 0
  /\ last = NoCall

\* ------------------------------------------------------------- Observable
\* Mutant: the Observable is hot, from runs its producer when it is built.
Observable_from_Eager(values) ==
  /\ observable.kind = "none"
  /\ observable' = [kind |-> "from", values |-> values]
  /\ producerCalls' = producerCalls + 1
  /\ last' = NoCall
  /\ UNCHANGED <<pc, observer, cursor, depth>>

\* Observable.from(values): the producer is stored, not invoked.
Observable_from(values) ==
  /\ observable.kind = "none"
  /\ observable' = [kind |-> "from", values |-> values]
  /\ last' = NoCall
  /\ UNCHANGED <<producerCalls, pc, observer, cursor, depth>>

\* new Observable(producer) with a producer other than from's.
Observable_new ==
  /\ observable.kind = "none"
  /\ observable' = [kind |-> "custom", values |-> <<>>]
  /\ last' = NoCall
  /\ UNCHANGED <<producerCalls, pc, observer, cursor, depth>>

\* Observable.subscribe up to the entry of the producer: the Observer is
\* built and this._subscribe(observer) is called.
Subscribe(s, h) ==
  /\ observable.kind # "none"
  /\ Idle
  /\ s \in SubsOf(observable.kind)
  /\ pc[s] = "none"
  /\ \A t \in Subs : t < s => pc[t] # "none"
  /\ observer' = [observer EXCEPT ![s] = NewObserver(h)]
  /\ pc' = [pc EXCEPT ![s] = "producing"]
  /\ cursor' = [cursor EXCEPT ![s] = FromStart(s)]
  /\ producerCalls' = producerCalls + 1
  /\ last' = NoCall
  /\ UNCHANGED <<observable, depth>>

\* from's producer: values.forEach((value) => observer.next(value)), one
\* element.  A throwing onNext leaves forEach, the producer and subscribe.
From_next(s, fault) ==
  /\ observable.kind = "from"
  /\ pc[s] = "producing"
  /\ cursor[s] < Len(observable.values)
  /\ LET o == observer[s]
         threw == NextThrows(o, fault)
     IN  /\ observer' = [observer EXCEPT ![s] = Observer_next(o, FromValue(observable.values, cursor[s]))]
         /\ pc' = [pc EXCEPT ![s] = IF threw THEN "thrown" ELSE "producing"]
         /\ last' = Call("next", s, threw)
  /\ cursor' = [cursor EXCEPT ![s] = @ + 1]
  /\ UNCHANGED <<observable, producerCalls, depth>>

\* from's producer: observer.complete() after the last element.
From_complete(s, fault) ==
  /\ observable.kind = "from"
  /\ pc[s] = "producing"
  /\ cursor[s] = Len(observable.values)
  /\ LET o == observer[s]
         threw == CompleteThrows(o, fault)
     IN  /\ observer' = [observer EXCEPT ![s] = Observer_complete(o, fault)]
         /\ pc' = [pc EXCEPT ![s] = IF threw THEN "thrown" ELSE "returning"]
         /\ depth' = Nesting(o, observer'[s], 0)
         /\ last' = Call("complete", s, threw)
  /\ UNCHANGED <<observable, producerCalls, cursor>>

\* The producer returns its teardown closure and subscribe stores it:
\* observer._unsubscribe = this._subscribe(observer); the handle is returned.
Subscribe_return(s) ==
  /\ \/ observable.kind = "from" /\ pc[s] = "returning"
     \/ observable.kind = "custom" /\ pc[s] = "producing"
  /\ observer' = [observer EXCEPT ![s].unsubscribeFn = TRUE]
  /\ pc' = [pc EXCEPT ![s] = "subscribed"]
  /\ last' = NoCall
  /\ UNCHANGED <<observable, producerCalls, cursor, depth>>

\* A hand-written producer returns a teardown closure that calls
\* observer.unsubscribe(): (observer) => () => observer.unsubscribe().
Subscribe_return_reentrant(s) ==
  /\ observable.kind = "custom"
  /\ pc[s] = "producing"
  /\ observer' = [observer EXCEPT ![s].unsubscribeFn = TRUE, ![s].reentrant = TRUE]
  /\ pc' = [pc EXCEPT ![s] = "subscribed"]
  /\ last' = NoCall
  /\ UNCHANGED <<observable, producerCalls, cursor, depth>>

\* The handle's unsubscribe() forwards to observer.unsubscribe().
Handle_unsubscribe(s) ==
  /\ pc[s] = "subscribed"
  /\ Idle
  /\ LET o == Observer_unsubscribe(observer[s])
     IN  /\ Bounded(o)
         /\ observer' = [observer EXCEPT ![s] = o]
         /\ depth' = Nesting(observer[s], o, 0)
  /\ last' = Call("unsubscribe", s, FALSE)
  /\ UNCHANGED <<observable, producerCalls, pc, cursor>>

\* ------------------------------------------------------------- producers
\* A producer other than from's holds the Observer and may call any of its
\* methods: inside subscribe (before the teardown is attached), or later,
\* from a timer or an I/O callback.  A throw inside subscribe leaves it.
MayCall(s) ==
  /\ observable.kind = "custom"
  /\ \/ pc[s] = "producing"
     \/ pc[s] \in {"subscribed", "thrown"} /\ Idle

AfterCall(s, threw) ==
  pc' = [pc EXCEPT ![s] = IF threw /\ pc[s] = "producing" THEN "thrown" ELSE pc[s]]

Producer_next(s, value, fault) ==
  /\ MayCall(s)
  /\ LET o == Observer_next(observer[s], value)
         threw == NextThrows(observer[s], fault)
     IN  /\ Bounded(o)
         /\ observer' = [observer EXCEPT ![s] = o]
         /\ AfterCall(s, threw)
         /\ last' = Call("next", s, threw)
  /\ UNCHANGED <<observable, producerCalls, cursor, depth>>

Producer_error(s, fault) ==
  /\ MayCall(s)
  /\ LET o == Observer_error(observer[s], fault)
         threw == ErrorThrows(observer[s], fault)
     IN  /\ Bounded(o)
         /\ observer' = [observer EXCEPT ![s] = o]
         /\ AfterCall(s, threw)
         /\ depth' = Nesting(observer[s], o, 0)
         /\ last' = Call("error", s, threw)
  /\ UNCHANGED <<observable, producerCalls, cursor>>

Producer_complete(s, fault) ==
  /\ MayCall(s)
  /\ LET o == Observer_complete(observer[s], fault)
         threw == CompleteThrows(observer[s], fault)
     IN  /\ Bounded(o)
         /\ observer' = [observer EXCEPT ![s] = o]
         /\ AfterCall(s, threw)
         /\ depth' = Nesting(observer[s], o, 0)
         /\ last' = Call("complete", s, threw)
  /\ UNCHANGED <<observable, producerCalls, cursor>>

Producer_unsubscribe(s) ==
  /\ MayCall(s)
  /\ LET o == Observer_unsubscribe(observer[s])
     IN  /\ Bounded(o)
         /\ observer' = [observer EXCEPT ![s] = o]
         /\ depth' = Nesting(observer[s], o, 0)
  /\ last' = Call("unsubscribe", s, FALSE)
  /\ UNCHANGED <<observable, producerCalls, pc, cursor>>

\* ------------------------------------------------------------- teardown
\* The running teardown closure calls observer.unsubscribe(): the flag is
\* set again and the teardown is entered again, one frame deeper.  Were the
\* teardown not entered again, every frame would return.
Teardown_unsubscribe(s) ==
  /\ depth >= 1
  /\ depth < MaxDepth
  /\ s = last.sub
  /\ LET o == Observer_unsubscribe(observer[s])
     IN  /\ observer' = [observer EXCEPT ![s] = o]
         /\ depth' = Nesting(observer[s], o, depth)
  /\ last' = Call("unsubscribe", s, FALSE)
  /\ UNCHANGED <<observable, producerCalls, pc, cursor>>

\* The call stack is exhausted: the engine throws a RangeError that leaves
\* every frame, the outermost call included.
Teardown_overflow(s) ==
  /\ depth = MaxDepth
  /\ s = last.sub
  /\ depth' = 0
  /\ last' = [last EXCEPT !.threw = TRUE]
  /\ UNCHANGED <<observable, producerCalls, pc, observer, cursor>>

\* ------------------------------------------------------------- Next
Next ==
  \/ \E values \in SeqsUpTo(MaxLen) : Observable_from(values)
  \/ Observable_new
  \/ \E s \in Subs, h \in IHandlers : Subscribe(s, h)
  \/ \E s \in Subs, fault \in BOOLEAN : From_next(s, fault)
  \/ \E s \in Subs, fault \in BOOLEAN : From_complete(s, fault)
  \/ \E s \in Subs : Subscribe_return(s)
  \/ \E s \in Subs : Subscribe_return_reentrant(s)
  \/ \E s \in Subs : Teardown_unsubscribe(s)
  \/ \E s \in Subs : Teardown_overflow(s)
  \/ \E s \in Subs : Handle_unsubscribe(s)
  \/ \E s \in Subs, value \in Values, fault \in BOOLEAN : Producer_next(s, value, fault)
  \/ \E s \in Subs, fault \in BOOLEAN : Producer_error(s, fault)
  \/ \E s \in Subs, fault \in BOOLEAN : Producer_complete(s, fault)
  \/ \E s \in Subs : Producer_unsubscribe(s)

Spec == Init /\ [][Next]_vars

\* ============================================================= properties
\* The Observer the last method call left behind.
Post == observer[last.sub]

Called(op) == last.op = op /\ last.sub \in Subs

\* C1: a next(v) call made while isUnsubscribed is true never invokes
\* onNext: the log of values onNext received is what it was before the call.
C1_NextInertOnceUnsubscribed ==
  (Called("next") /\ last.pre.isUnsubscribed) => Post.nextLog = last.pre.nextLog

\* C1 witness: next was called on an Observer with an onNext handler that was
\* unsubscribed before any emission (no terminal handler had fired).
C1_Witness ==
  /\ Called("next")
  /\ last.pre.isUnsubscribed
  /\ last.pre.handlers = [next |-> TRUE, error |-> TRUE, complete |-> TRUE]
  /\ last.pre.nextLog = <<>>
  /\ last.pre.errorCount = 0
  /\ last.pre.completeCount = 0

\* C2 (as claimed): over any sequence of error and complete calls at most one
\* terminal callback fires in total.
C2_AtMostOneTerminalCallback ==
  \A s \in Subs : observer[s].errorCount + observer[s].completeCount <= 1

\* C3 (as claimed): the teardown action runs at most once in total, and an
\* unsubscribe() call after it has run changes nothing.
C3_UnsubscribeIdempotent ==
  /\ \A s \in Subs : observer[s].teardownRuns <= 1
  /\ (Called("unsubscribe") /\ last.pre.teardownRuns >= 1) => Post = last.pre

\* C4 (as claimed): once a subscription has terminated and subscribe has
\* returned, its teardown action has run exactly once.
C4_TeardownExactlyOnce ==
  \A s \in Subs :
    (pc[s] = "subscribed" /\ observer[s].isUnsubscribed) => observer[s].teardownRuns = 1

\* C5: an error(e) or complete() call made while isUnsubscribed is true is a
\* no-op: no handler, no teardown, the Observer is left as it was, no throw.
C5_TerminalCallInertOnceUnsubscribed ==
  ((Called("error") \/ Called("complete")) /\ last.pre.isUnsubscribed)
    => (Post = last.pre /\ ~last.threw)

\* C5 witness: a late error(e) on a subscription with all handlers and its
\* teardown attached, after it was unsubscribed.
C5_Witness ==
  /\ Called("error")
  /\ pc[last.sub] = "subscribed"
  /\ last.pre.isUnsubscribed
  /\ last.pre.unsubscribeFn
  /\ last.pre.handlers.error
  /\ last.pre.handlers.complete

\* C6: isUnsubscribed is false when the Observer is constructed and no step
\* sets it back to false once it is true.
C6_IsUnsubscribedMonotonic ==
  [][\A s \in Subs :
       /\ observer[s].isUnsubscribed => observer'[s].isUnsubscribed
       /\ (pc[s] = "none" /\ pc'[s] # "none") => ~observer'[s].isUnsubscribed]_vars

\* C6 witness: a second unsubscribe() has acted on an unsubscribed Observer
\* with its teardown attached.
C6_Witness ==
  /\ Called("unsubscribe")
  /\ last.pre.isUnsubscribed
  /\ last.pre.unsubscribeFn
  /\ Post.isUnsubscribed

IsPrefix(p, q) == Len(p) <= Len(q) /\ \A i \in 1..Len(p) : p[i] = q[i]

\* What onNext must have received once from's producer is through.
Delivered(s) == IF observer[s].handlers.next THEN observable.values ELSE <<>>

\* C8: subscribing to Observable.from(values) gives onNext each value once,
\* in order, never invokes onError, invokes onComplete once and only after
\* the last onNext, and isUnsubscribed is true when subscribe returns.
C8_FromDeliversAllThenCompletes ==
  \A s \in Subs :
    observable.kind = "from" =>
      /\ IsPrefix(observer[s].nextLog, observable.values)
      /\ observer[s].errorCount = 0
      /\ observer[s].completeCount <= 1
      /\ observer[s].completeCount = 1 => observer[s].nextLog = Delivered(s)
      /\ pc[s] = "subscribed" =>
           /\ observer[s].nextLog = Delivered(s)
           /\ observer[s].completeCount = (IF observer[s].handlers.complete THEN 1 ELSE 0)
           /\ observer[s].isUnsubscribed

\* C8 witness: subscribe has returned on from(<<a, b>>) with all handlers.
C8_Witness ==
  /\ observable.kind = "from"
  /\ observable.values = <<"a", "b">>
  /\ pc[1] = "subscribed"
  /\ observer[1].handlers = [next |-> TRUE, error |-> TRUE, complete |-> TRUE]
  /\ observer[1].nextLog = <<"a", "b">>
  /\ observer[1].completeCount = 1

\* C9 (as claimed): after a subscription to Observable.from(values) has
\* completed, unsubscribe() on the handle runs no teardown and changes nothing.
C9_UnsubscribeAfterCompletionNoOp ==
  (/\ observable.kind = "from"
   /\ Called("unsubscribe")
   /\ last.pre.completeCount = 1)
    => Post = last.pre

\* C10: two subscriptions of the same Observable.from(values) are
\* independent: each one's onNext gets the whole sequence in order whatever
\* the other did, and no step on one changes the other's Observer or place.
C10_SubscriptionsIndependent ==
  /\ [](\A s \in Subs :
          (observable.kind = "from" /\ pc[s] = "subscribed")
            => (observer[s].nextLog = Delivered(s) /\ observer[s].isUnsubscribed))
  /\ [][\A s \in Subs, t \in Subs :
          (s # t /\ (observer'[s] # observer[s] \/ pc'[s] # pc[s] \/ cursor'[s] # cursor[s]))
            => (observer'[t] = observer[t] /\ pc'[t] = pc[t] /\ cursor'[t] = cursor[t])]_vars

\* C10 witness: both subscriptions of from(<<a, b>>) received <<a, b>>; the
\* first one's handle was unsubscribed, the second one's was not.
C10_Witness ==
  /\ observable.kind = "from"
  /\ observable.values = <<"a", "b">>
  /\ pc[1] = "subscribed" /\ pc[2] = "subscribed"
  /\ observer[1].nextLog = <<"a", "b">> /\ observer[2].nextLog = <<"a", "b">>
  /\ observer[1].teardownRuns = 1
  /\ observer[2].teardownRuns = 0

Subscribed == {s \in Subs : pc[s] # "none"}

\* C11: building an Observable invokes no producer and fires no handler; each
\* subscribe call invokes the producer exactly once, with a fresh Observer,
\* so after n subscribe calls the producer has been invoked n times.
C11_ColdProducerOncePerSubscribe ==
  /\ [](producerCalls = Cardinality(Subscribed))
  /\ [](Subscribed = {} => \A s \in Subs : observer[s] = NoObserver)
  /\ [][/\ observable' # observable => (producerCalls' = producerCalls /\ observer' = observer)
        /\ \A s \in Subs :
             (pc[s] = "none" /\ pc'[s] # "none")
               => /\ producerCalls' = producerCalls + 1
                  /\ observer'[s] = NewObserver(observer'[s].handlers)]_vars

\* C11 witness: two subscribe calls were made on one Observable.from(...).
C11_Witness ==
  /\ observable.kind = "from"
  /\ pc[1] = "subscribed" /\ pc[2] = "subscribed"
  /\ producerCalls = 2

\* C12 (as claimed): when the teardown calls unsubscribe() on its own
\* Observer, the teardown is not entered again (it runs in one frame at
\* most) and the outer call returns instead of exhausting the stack.
C12_ReentrantUnsubscribeSafe ==
  /\ depth <= 1
  /\ ~(Called("unsubscribe") /\ last.threw)

\* C13: the first unsubscribe() on a live subscription whose subscribe has
\* returned sets isUnsubscribed and runs that subscription's teardown within
\* the call; no call on one subscription touches another one's Observer.
C13_CancellationSynchronous ==
  /\ []((/\ Called("unsubscribe")
         /\ pc[last.sub] = "subscribed"
         /\ ~last.pre.isUnsubscribed)
          => (/\ last.pre.unsubscribeFn
              /\ last.pre.teardownRuns = 0
              /\ Post.isUnsubscribed
              /\ Post.teardownRuns = 1))
  /\ [][\A s \in Subs, t \in Subs :
          (s # t /\ last'.sub = s) => observer'[t] = observer[t]]_vars

\* C13 witness: such a call has returned.
C13_Witness ==
  /\ Called("unsubscribe")
  /\ pc[last.sub] = "subscribed"
  /\ ~last.pre.isUnsubscribed
  /\ ~last.pre.reentrant
  /\ Post.teardownRuns = 1
  /\ depth = 0

\* C14: in error(e) and complete() on a live Observer the handler comes
\* first, then the flag, then the teardown: a terminal handler is never
\* entered with the flag set, a teardown never with the flag not set, a call
\* whose handler returned has set the flag and run the attached teardown, and
\* a call whose handler threw has done neither.
C14_HandlerThenFlagThenTeardown ==
  /\ \A s \in Subs : ~observer[s].handlerSawUnsubscribed /\ ~observer[s].teardownSawLive
  /\ ((Called("error") \/ Called("complete")) /\ ~last.pre.isUnsubscribed)
       => IF last.threw
          THEN ~Post.isUnsubscribed /\ Post.teardownRuns = last.pre.teardownRuns
          ELSE /\ Post.isUnsubscribed
               /\ Post.teardownRuns =
                    last.pre.teardownRuns + (IF last.pre.unsubscribeFn THEN 1 ELSE 0)

\* C14 witness: complete() on a live Observer with onComplete and a teardown.
C14_Witness ==
  /\ Called("complete")
  /\ ~last.pre.isUnsubscribed
  /\ last.pre.unsubscribeFn
  /\ last.pre.handlers.complete
  /\ Post.completeCount = 1
  /\ Post.teardownRuns = 1

\* C15: a next(value) call leaves isUnsubscribed and the stored teardown as
\* they were and runs no teardown, with or without an onNext handler.
C15_NextNeverTerminates ==
  Called("next")
    => /\ Post.isUnsubscribed = last.pre.isUnsubscribed
       /\ Post.unsubscribeFn = last.pre.unsubscribeFn
       /\ Post.reentrant = last.pre.reentrant
       /\ Post.teardownRuns = last.pre.teardownRuns
       /\ depth = 0

\* C15 witness: onNext received a value on a live subscription with its
\* teardown attached.
C15_Witness ==
  /\ Called("next")
  /\ ~last.pre.isUnsubscribed
  /\ last.pre.unsubscribeFn
  /\ Len(Post.nextLog) = Len(last.pre.nextLog) + 1

\* C16: when onError or onComplete throws in error(e) or complete() on a live
\* Observer, the throw leaves the caller (the producer and subscribe, when
\* inside them), isUnsubscribed stays false and no teardown runs; hence every
\* error(e)/complete() on a live Observer invokes its handler, also after an
\* earlier terminal handler has fired.
C16_ThrowingHandlerLeavesObserverLive ==
  /\ ((Called("error") \/ Called("complete")) /\ last.threw)
       => /\ ~last.pre.isUnsubscribed
          /\ ~Post.isUnsubscribed
          /\ Post.teardownRuns = last.pre.teardownRuns
          /\ pc[last.sub] \notin {"producing", "returning"}
  /\ (Called("error") /\ ~last.pre.isUnsubscribed /\ last.pre.handlers.error)
       => Post.errorCount = last.pre.errorCount + 1
  /\ (Called("complete") /\ ~last.pre.isUnsubscribed /\ last.pre.handlers.complete)
       => Post.completeCount = last.pre.completeCount + 1

\* C16 witness: onError threw earlier, the Observer stayed live, and a later
\* complete() has invoked onComplete.
C16_Witness ==
  /\ Called("complete")
  /\ last.pre.errorCount = 1
  /\ ~last.pre.isUnsubscribed
  /\ last.pre.teardownRuns = 0
  /\ Post.completeCount = 1

\* C17: an unsubscribe() call, on the Observer or through the handle, invokes
\* none of onNext, onError, onComplete.
C17_CancellationSilent ==
  Called("unsubscribe")
    => /\ Post.nextLog = last.pre.nextLog
       /\ Post.errorCount = last.pre.errorCount
       /\ Post.completeCount = last.pre.completeCount

\* C17 witness: unsubscribe() on a live subscription that has all three
\* handlers.
C17_Witness ==
  /\ Called("unsubscribe")
  /\ ~last.pre.isUnsubscribed
  /\ last.pre.handlers = [next |-> TRUE, error |-> TRUE, complete |-> TRUE]
  /\ Post.isUnsubscribed

\* C18: a subscription whose teardown has run has isUnsubscribed true, and
\* the teardown was never entered while the Observer was live.
C18_TeardownImpliesUnsubscribed ==
  \A s \in Subs :
    /\ observer[s].teardownRuns >= 1 => observer[s].isUnsubscribed
    /\ ~observer[s].teardownSawLive

\* C18 witness: the teardown has run through complete().
C18_Witness ==
  \E s \in Subs :
    /\ observer[s].teardownRuns = 1
    /\ observer[s].completeCount = 1
    /\ observer[s].isUnsubscribed

====
